---- MODULE Spec2Model ----
(***************************************************************************)
(* Model of src/src/app.py: a Dash dashboard with two sections.            *)
(*   - roads section: settlements within a buffer of the major roads       *)
(*   - ports section: ports within a buffer of the large settlements       *)
(*                                                                         *)
(* Geometry.  All features lie on one east-west line of the projected CRS  *)
(* (NORTHING constant), so a geometry is an EASTING or an interval of      *)
(* EASTINGs, in metres.  On that line the buffer polygons of the geometry  *)
(* engine are exact: the buffer of [lo, hi] by d > 0 meets the line in     *)
(* [lo - d, hi + d], and a buffer by 0 is the empty polygon.  The          *)
(* predicate 'within' is true of a point in the interior of the region     *)
(* and false of a point on its boundary.                                   *)
(***************************************************************************)
EXTENDS Integers, Sequences, FiniteSets, TLC

VARIABLES
    DATA_LOADED_SUCCESSFULLY,   \* app.py:48,50
    ERROR_MESSAGE,              \* app.py:51 (unbound when the load succeeded)
    ROADS,                      \* app.py:14  sequence of [lo, hi, KOD]
    naselja_gdf,                \* app.py:21  sequence of [EASTING, BR_ST_01, NAZIV_NAS]
    m_luke_gdf,                 \* app.py:26  sequence of [EASTING, NAZIV]
    slider_roads,               \* app.py:65  value of dcc.Slider 'slider-roads'
    slider_ports,               \* app.py:83  value of dcc.Slider 'slider-ports'
    relayout_roads,             \* app.py:72  relayoutData of dcc.Graph 'map-roads'
    relayout_ports,             \* app.py:91  relayoutData of dcc.Graph 'map-ports'
    pc_roads,                   \* "Idle" | "Recomputing": callback of section 1 in flight
    pc_ports,                   \* "Idle" | "Recomputing": callback of section 2 in flight
    req_roads,                  \* arguments of the latest dispatched update_roads_section
    req_ports,                  \* arguments of the latest dispatched update_ports_section
    out_roads,                  \* map-roads.figure, title-roads.children, barcharts-roads.figure
    out_ports                   \* map-ports.figure, title-ports.children, barchart-ports.figure

data == <<DATA_LOADED_SUCCESSFULLY, ERROR_MESSAGE, ROADS, naselja_gdf, m_luke_gdf>>
sec_roads == <<slider_roads, relayout_roads, pc_roads, req_roads, out_roads>>
sec_ports == <<slider_ports, relayout_ports, pc_ports, req_ports, out_ports>>
vars == <<data, sec_roads, sec_ports>>

----------------------------------------------------------------------------
(* Bounds of the model *)

MaxRoadSteps == 2       \* slider-roads positions above its minimum, for the queries
MaxPortSteps == 2       \* slider-ports positions above its minimum, for the queries
MaxReactiveSteps == 0   \* slider positions above the minimum, for the reactive runs
MaxSettlements == 2     \* rows of naselja.csv
MaxPorts == 2           \* rows of m_luke.csv

(* Program constants *)

RoadsSliderMin == 0
RoadsSliderMax == 10000
RoadsSliderStep == 100
RoadsSliderValue == 500
PortsSliderMin == 0
PortsSliderMax == 50000
PortsSliderStep == 1000
PortsSliderValue == 20000
LargeThreshold == 10000
DefaultZoom == 6

----------------------------------------------------------------------------
(* Helpers on sequences *)

RECURSIVE SumPop(_)
SumPop(s) == IF s = <<>> THEN 0 ELSE Head(s).BR_ST_01 + SumPop(Tail(s))

SeqsUpTo(S, n) == UNION {[1..k -> S] : k \in 0..n}

----------------------------------------------------------------------------
(* The geometry engine on the east-west line *)

\* GeoSeries.buffer(d): one polygon per geometry; a buffer by 0 is empty.
\* A polygon is [lo, hi] with lo < hi; the empty polygon has lo = hi = 0.
EmptyPolygon == [lo |-> 0, hi |-> 0]

IsEmpty(poly) == poly.lo >= poly.hi

buffer(geoms, d) ==
    [i \in 1..Len(geoms) |->
        IF d > 0 THEN [lo |-> geoms[i].lo - d, hi |-> geoms[i].hi + d]
        ELSE EmptyPolygon]

\* union_all(): the dissolved region, as the set of its non-empty parts
union_all(polys) == {polys[i] : i \in {j \in 1..Len(polys) : ~IsEmpty(polys[j])}}

within_Intersects(x, region) == \E p \in region : p.lo <= x /\ x <= p.hi

\* predicate='within': the point is in the interior of the region
within(x, region) == \E p \in region : p.lo < x /\ x < p.hi

sjoin_NotWithin(points, region) ==
    SelectSeq(points, LAMBDA row : ~within(row.EASTING, region))

\* gpd.sjoin(points, region, how='inner', predicate='within'): the rows of
\* points within the region, in the order of points
sjoin(points, region) == SelectSeq(points, LAMBDA row : within(row.EASTING, region))

\* a point as the degenerate interval the buffer is taken of
PointGeom(row) == [lo |-> row.EASTING, hi |-> row.EASTING]

\* to_crs(epsg=4326): planar EASTING to longitude (1-D affine stand-in for
\* the reprojection; latitude is the constant of the line)
WGS84Origin == 7
to_crs_x(x) == WGS84Origin + x
LineLat == 45

\* the region reprojected: the geojson handed to the choropleth
RegionGeoJSON(region) == {[lo |-> to_crs_x(p.lo), hi |-> to_crs_x(p.hi)] : p \in region}

----------------------------------------------------------------------------
(* 1. Data loading and preparation: derived static subsets *)

\* AID = ROADS[(KOD == 1) | (KOD == 3)]
AID == SelectSeq(ROADS, LAMBDA road : road.KOD = 1 \/ road.KOD = 3)

\* large_settlements = naselja_gdf[BR_ST_01 > 10000]
large_settlements == SelectSeq(naselja_gdf, LAMBDA row : row.BR_ST_01 > LargeThreshold)

\* the filtered road network dissolved into elementary pieces <<a, b>>
AIDBreaks == {AID[i].lo : i \in 1..Len(AID)} \cup {AID[i].hi : i \in 1..Len(AID)}
AIDPieces ==
    {p \in AIDBreaks \X AIDBreaks :
        /\ p[1] < p[2]
        /\ ~ \E c \in AIDBreaks : p[1] < c /\ c < p[2]
        /\ \E i \in 1..Len(AID) : AID[i].lo <= p[1] /\ p[2] <= AID[i].hi}

RECURSIVE PiecesLength(_)
PiecesLength(S) ==
    IF S = {} THEN 0
    ELSE LET p == CHOOSE e \in S : TRUE IN (p[2] - p[1]) + PiecesLength(S \ {p})

RECURSIVE PiecesMoment(_)
\* twice the first moment of the pieces about the origin
PiecesMoment(S) ==
    IF S = {} THEN 0
    ELSE LET p == CHOOSE e \in S : TRUE
         IN (p[2] - p[1]) * (p[1] + p[2]) + PiecesMoment(S \ {p})

\* centroid of AID.to_crs(4326).union_all(); NaNCoord for the empty geometry
NaNCoord == -1
map_center_lon ==
    IF AIDPieces = {} THEN NaNCoord
    ELSE to_crs_x(PiecesMoment(AIDPieces) \div (2 * PiecesLength(AIDPieces)))

map_center_lat == IF AIDPieces = {} THEN NaNCoord ELSE LineLat

----------------------------------------------------------------------------
(* relayoutData of a map: None, or a dict of the keys the last relayout    *)
(* event reported.  zoom and center are meaningful only under their keys.  *)

NoCenter == [lat |-> 0, lon |-> 0]

NoneRelayout == [isNone |-> TRUE, keys |-> {}, zoom |-> 0, center |-> NoCenter]

Relayout(keys, zoom, center) ==
    [isNone |-> FALSE, keys |-> keys,
     zoom |-> IF "mapbox.zoom" \in keys THEN zoom ELSE 0,
     center |-> IF "mapbox.center" \in keys THEN center ELSE NoCenter]

\* Python truthiness of relayout_data: not None and not an empty dict
Truthy(relayout_data) == ~relayout_data.isNone /\ relayout_data.keys # {}

\* app.py:134-136 and 186-188: the viewport of the returned map.  Reading
\* relayout_data['mapbox.center'] from a dict without that key raises KeyError.
viewport(relayout_data) ==
    IF Truthy(relayout_data) /\ "mapbox.zoom" \in relayout_data.keys
    THEN IF "mapbox.center" \in relayout_data.keys
         THEN [raised |-> FALSE, zoom |-> relayout_data.zoom, center |-> relayout_data.center]
         ELSE [raised |-> TRUE, zoom |-> 0, center |-> NoCenter]
    ELSE [raised |-> FALSE, zoom |-> DefaultZoom,
          center |-> [lat |-> map_center_lat, lon |-> map_center_lon]]

----------------------------------------------------------------------------
(* Figures *)

error_fig == [data |-> <<>>, layout |-> [template |-> "plotly_dark", title_text |-> "Error"]]

Choroplethmapbox(region, name) ==
    [type |-> "choroplethmapbox", name |-> name, geojson |-> RegionGeoJSON(region)]

ScatterLon(rows) == [i \in 1..Len(rows) |-> to_crs_x(rows[i].EASTING)]

\* low-emphasis markers, hoverinfo='none'
ScatterPlain(rows, name) ==
    [type |-> "scattermapbox", name |-> name, lon |-> ScatterLon(rows),
     hoverinfo |-> "none"]

\* markers with the name column as hover text
ScatterText(rows, text, name) ==
    [type |-> "scattermapbox", name |-> name, lon |-> ScatterLon(rows),
     text |-> text, hoverinfo |-> "text"]

Bar(y, name) == [type |-> "bar", name |-> name, x |-> <<"Inside", "Outside">>, y |-> y]

MapFigure(traces, view) ==
    [data |-> traces,
     layout |-> [mapbox_style |-> "carto-darkmatter", mapbox_zoom |-> view.zoom,
                 mapbox_center |-> view.center]]

NAZIV_NAS(rows) == [i \in 1..Len(rows) |-> rows[i].NAZIV_NAS]

NAZIV(rows) == [i \in 1..Len(rows) |-> rows[i].NAZIV]

RaisedResult(exc) ==
    [status |-> exc, map |-> error_fig, title |-> [text |-> exc], chart |-> error_fig]

ErrorResult ==
    [status |-> "returned", map |-> error_fig, title |-> [text |-> ERROR_MESSAGE],
     chart |-> error_fig]

----------------------------------------------------------------------------
(* 4. Callback for section 1 *)

\* app.py:112-116
selected_naselja(buffer_distance) ==
    sjoin(naselja_gdf, union_all(buffer(AID, buffer_distance)))

\* app.py:119-122
roads_pop_in(selected) == SumPop(selected)

roads_pop_out(selected) == SumPop(naselja_gdf) - roads_pop_in(selected)

roads_count_in(selected) == Len(selected)

roads_count_out_CopyPaste(selected) == Len(m_luke_gdf) - roads_count_in(selected)

roads_count_out(selected) == Len(naselja_gdf) - roads_count_in(selected)

\* app.py:129-132
roads_traces(buffer_distance, selected) ==
    << Choroplethmapbox(union_all(buffer(AID, buffer_distance)), "Buffer Zone"),
       ScatterPlain(naselja_gdf, "All Settlements"),
       ScatterText(selected, NAZIV_NAS(selected), "Selected Settlements") >>

\* app.py:140-143
roads_bar_fig(selected) ==
    [data |-> << Bar(<<roads_pop_in(selected), roads_pop_out(selected)>>, "Population"),
                 Bar(<<roads_count_in(selected), roads_count_out(selected)>>, "Settlements") >>,
     layout |-> [title_text |-> "Data Summary"]]

\* app.py:145
roads_title(buffer_distance, selected) ==
    [text |-> "Population within {} meters: {}", distance |-> buffer_distance,
     value |-> roads_pop_in(selected)]

update_roads_section_NoGuard(buffer_distance, relayout_data) ==
    LET selected == selected_naselja(buffer_distance)
        view == viewport(relayout_data)
    IN IF view.raised THEN RaisedResult("KeyError")
       ELSE [status |-> "returned",
             map |-> MapFigure(roads_traces(buffer_distance, selected), view),
             title |-> roads_title(buffer_distance, selected),
             chart |-> roads_bar_fig(selected)]

update_roads_section(buffer_distance, relayout_data) ==
    IF ~DATA_LOADED_SUCCESSFULLY THEN ErrorResult
    ELSE LET selected == selected_naselja(buffer_distance)
             view == viewport(relayout_data)
         IN IF view.raised THEN RaisedResult("KeyError")
            ELSE [status |-> "returned",
                  map |-> MapFigure(roads_traces(buffer_distance, selected), view),
                  title |-> roads_title(buffer_distance, selected),
                  chart |-> roads_bar_fig(selected)]

----------------------------------------------------------------------------
(* 5. Callback for section 2 *)

RECURSIVE drop_duplicates_KeepLast(_)
drop_duplicates_KeepLast(rows) ==
    IF rows = <<>> THEN <<>>
    ELSE LET last == rows[Len(rows)]
         IN drop_duplicates_KeepLast(
                SelectSeq(SubSeq(rows, 1, Len(rows) - 1),
                          LAMBDA row : row.NAZIV # last.NAZIV)) \o <<last>>

\* DataFrame.drop_duplicates(subset=['NAZIV']): keep='first', the first row
\* of each name is kept, in the order of rows
RECURSIVE drop_duplicates(_)
drop_duplicates(rows) ==
    IF rows = <<>> THEN <<>>
    ELSE <<Head(rows)>> \o
         drop_duplicates(SelectSeq(Tail(rows), LAMBDA row : row.NAZIV # Head(rows).NAZIV))

\* the large settlements as the geometries the buffer is taken of
large_geoms == [i \in 1..Len(large_settlements) |-> PointGeom(large_settlements[i])]

\* app.py:163-169
selected_ports(buffer_distance) ==
    drop_duplicates(sjoin(m_luke_gdf, union_all(buffer(large_geoms, buffer_distance))))

\* app.py:172-173
ports_count_in(selected) == Len(selected)

ports_count_out(selected) == Len(m_luke_gdf) - ports_count_in(selected)

ports_traces_BaseFirst(buffer_distance, selected) ==
    << Choroplethmapbox(union_all(buffer(large_geoms, buffer_distance)), "Buffer Zone"),
       ScatterPlain(m_luke_gdf, "All Ports"),
       ScatterText(large_settlements, NAZIV_NAS(large_settlements), "Large Settlements (>10k)"),
       ScatterText(selected, NAZIV(selected), "Selected Ports") >>

\* app.py:181-184
ports_traces(buffer_distance, selected) ==
    << Choroplethmapbox(union_all(buffer(large_geoms, buffer_distance)), "Buffer Zone"),
       ScatterText(large_settlements, NAZIV_NAS(large_settlements), "Large Settlements (>10k)"),
       ScatterPlain(m_luke_gdf, "All Ports"),
       ScatterText(selected, NAZIV(selected), "Selected Ports") >>

\* app.py:192-202
ports_bar_fig(selected) ==
    [data |-> << Bar(<<ports_count_in(selected), ports_count_out(selected)>>, "Ports") >>,
     layout |-> [title_text |-> "Ports Summary"]]

\* app.py:204; the distance is shown in km with one decimal (tenths of a km;
\* exact for the multiples of 100 m the slider produces)
ports_title(buffer_distance, selected) ==
    [text |-> "Number of ports within {} km of large settlements: {}",
     km_tenths |-> buffer_distance \div 100, value |-> ports_count_in(selected)]

update_ports_section(buffer_distance, relayout_data) ==
    IF ~DATA_LOADED_SUCCESSFULLY THEN ErrorResult
    ELSE LET selected == selected_ports(buffer_distance)
             view == viewport(relayout_data)
         IN IF view.raised THEN RaisedResult("KeyError")
            ELSE [status |-> "returned",
                  map |-> MapFigure(ports_traces(buffer_distance, selected), view),
                  title |-> ports_title(buffer_distance, selected),
                  chart |-> ports_bar_fig(selected)]

----------------------------------------------------------------------------
(* 3. Layout: the controls and their domains *)

\* dcc.Slider(id='slider-roads', min=0, max=10000, step=100, value=500)
SliderRoadsValues ==
    {v \in {RoadsSliderMin + k * RoadsSliderStep : k \in 0..MaxRoadSteps} : v <= RoadsSliderMax}

\* dcc.Slider(id='slider-ports', min=0, max=50000, step=1000, value=20000)
SliderPortsValues ==
    {v \in {PortsSliderMin + k * PortsSliderStep : k \in 0..MaxPortSteps} : v <= PortsSliderMax}

\* the slider positions of the reactive runs
ReactiveRoadsValues ==
    {v \in {RoadsSliderMin + k * RoadsSliderStep : k \in 0..MaxReactiveSteps} :
        v <= RoadsSliderMax} \cup {RoadsSliderValue}

ReactivePortsValues ==
    {v \in {PortsSliderMin + k * PortsSliderStep : k \in 0..MaxReactiveSteps} :
        v <= PortsSliderMax} \cup {PortsSliderValue}

\* what a relayout event of a map may leave in relayoutData
UserZoom == 9
UserCenter == [lat |-> 44, lon |-> 16]
RelayoutEvents ==
    { Relayout({"mapbox.center"}, 0, UserCenter),
      Relayout({"mapbox.zoom"}, UserZoom, NoCenter),
      Relayout({"mapbox.center", "mapbox.zoom"}, UserZoom, UserCenter) }

\* a Graph or H2 whose property no callback has set yet
NoOutput ==
    [status |-> "none", map |-> [data |-> <<>>, layout |-> [unset |-> TRUE]],
     title |-> [text |-> ""], chart |-> [data |-> <<>>, layout |-> [unset |-> TRUE]]]

Request(buffer_distance, relayout_data) ==
    [buffer_distance |-> buffer_distance, relayout_data |-> relayout_data]

\* no request in flight
NoRequest == [buffer_distance |-> -1, relayout_data |-> NoneRelayout]

----------------------------------------------------------------------------
(* Datasets the files may hold *)

SettlementName(i) == <<"Naselje1", "Naselje2", "Naselje3", "Naselje4">>[i]

Named(rows) ==
    [i \in 1..Len(rows) |->
        [EASTING |-> rows[i].EASTING, BR_ST_01 |-> rows[i].BR_ST_01,
         NAZIV_NAS |-> SettlementName(i)]]

Road(lo, hi, kod) == [lo |-> lo, hi |-> hi, KOD |-> kod]

Naselje(x, pop) == [EASTING |-> x, BR_ST_01 |-> pop]

Luka(x, name) == [EASTING |-> x, NAZIV |-> name]

\* roads family: varied roads and settlements, no ports
RoadLists ==
    { <<>>, <<Road(0, 400, 2)>>, <<Road(0, 100, 1)>>, <<Road(300, 400, 3)>>,
      <<Road(0, 100, 1), Road(300, 400, 3)>>, <<Road(0, 100, 1), Road(0, 400, 2)>>,
      <<Road(0, 400, 2), Road(300, 400, 3)>>, <<Road(0, 100, 1), Road(50, 150, 3)>>,
      <<Road(0, 100, 1), Road(0, 400, 2), Road(300, 400, 3)>> }
RoadsFamilySettlements == {Naselje(50, 500), Naselje(200, 20000), Naselje(250, 700)}

\* ports family: one road, varied settlements and ports
PortsFamilySettlements == {Naselje(0, 20000), Naselje(3000, 20000), Naselje(0, 10000)}
PortRows == {Luka(500, "Marina A"), Luka(1000, "Marina A"), Luka(1500, "Marina B")}

\* the datasets of the dashboard runs
Bundle1 ==
    [ROADS |-> <<Road(0, 100, 1), Road(100, 400, 2)>>,
     naselja |-> Named(<<Naselje(50, 500), Naselje(200, 20000), Naselje(700, 12000)>>),
     m_luke |-> <<Luka(1700, "Marina A"), Luka(2200, "Marina A"), Luka(5000, "Marina B")>>]

\* no major road, no large settlement: both buffer regions are empty
Bundle2 ==
    [ROADS |-> <<Road(0, 100, 2)>>,
     naselja |-> Named(<<Naselje(50, 500)>>),
     m_luke |-> <<Luka(60, "Marina A")>>]

Bundles == {Bundle1, Bundle2}

\* app.py:51
LoadErrorMessage(filename) ==
    IF filename = "naselja.csv"
    THEN "Error: Could not load data file 'naselja.csv'. Make sure all data files are in the same directory."
    ELSE "Error: Could not load data file 'm_luke.csv'. Make sure all data files are in the same directory."

\* app.py:12-48: every file was read
Loaded(roads, naselja, m_luke) ==
    /\ DATA_LOADED_SUCCESSFULLY = TRUE
    /\ ERROR_MESSAGE = "unbound"
    /\ ROADS = roads
    /\ naselja_gdf = naselja
    /\ m_luke_gdf = m_luke

\* app.py:49-51: read_csv raised FileNotFoundError; the datasets stay unbound
LoadFailed(filename) ==
    /\ DATA_LOADED_SUCCESSFULLY = FALSE
    /\ ERROR_MESSAGE = LoadErrorMessage(filename)
    /\ ROADS = <<>>
    /\ naselja_gdf = <<>>
    /\ m_luke_gdf = <<>>

\* the page as first served: both callbacks are dispatched with the initial
\* slider values and no relayoutData
PageLoad ==
    /\ slider_roads = RoadsSliderValue
    /\ slider_ports = PortsSliderValue
    /\ relayout_roads = NoneRelayout
    /\ relayout_ports = NoneRelayout
    /\ pc_roads = "Recomputing"
    /\ pc_ports = "Recomputing"
    /\ req_roads = Request(RoadsSliderValue, NoneRelayout)
    /\ req_ports = Request(PortsSliderValue, NoneRelayout)
    /\ out_roads = NoOutput
    /\ out_ports = NoOutput

Init ==
    /\ \/ \E b \in Bundles : Loaded(b.ROADS, b.naselja, b.m_luke)
       \/ \E f \in {"naselja.csv", "m_luke.csv"} : LoadFailed(f)
    /\ PageLoad

----------------------------------------------------------------------------
(* Reactive binding: Input('slider-*', 'value'), State('map-*', 'relayoutData') *)

\* the user moves slider-roads: the Input fires and the callback is
\* dispatched with the map's current relayoutData as State
slider_roads_changed(v) ==
    /\ pc_roads = "Idle"
    /\ v # slider_roads
    /\ slider_roads' = v
    /\ req_roads' = Request(v, relayout_roads)
    /\ pc_roads' = "Recomputing"
    /\ UNCHANGED <<data, relayout_roads, out_roads, sec_ports>>

\* relayoutData declared as an Input: a pan or zoom dispatches the callback
map_roads_relayout_AsInput(r) ==
    /\ pc_roads = "Idle"
    /\ r # relayout_roads
    /\ relayout_roads' = r
    /\ req_roads' = Request(slider_roads, r)
    /\ pc_roads' = "Recomputing"
    /\ UNCHANGED <<data, slider_roads, out_roads, sec_ports>>

\* the user pans or zooms map-roads: relayoutData is State, nothing is dispatched
map_roads_relayout(r) ==
    /\ r # relayout_roads
    /\ relayout_roads' = r
    /\ UNCHANGED <<data, slider_roads, pc_roads, req_roads, out_roads, sec_ports>>

\* the callback wired to the other section's slider
run_update_roads_section_Coupled ==
    /\ pc_roads = "Recomputing"
    /\ LET res == update_roads_section(slider_ports, req_roads.relayout_data)
       IN out_roads' = IF res.status = "returned" THEN res ELSE out_roads
    /\ pc_roads' = "Idle"
    /\ req_roads' = NoRequest
    /\ UNCHANGED <<data, slider_roads, relayout_roads, sec_ports>>

\* update_roads_section runs to completion; an exception leaves the outputs as they were
run_update_roads_section ==
    /\ pc_roads = "Recomputing"
    /\ LET res == update_roads_section(req_roads.buffer_distance, req_roads.relayout_data)
       IN out_roads' = IF res.status = "returned" THEN res ELSE out_roads
    /\ pc_roads' = "Idle"
    /\ req_roads' = NoRequest
    /\ UNCHANGED <<data, slider_roads, relayout_roads, sec_ports>>

slider_ports_changed(v) ==
    /\ pc_ports = "Idle"
    /\ v # slider_ports
    /\ slider_ports' = v
    /\ req_ports' = Request(v, relayout_ports)
    /\ pc_ports' = "Recomputing"
    /\ UNCHANGED <<data, relayout_ports, out_ports, sec_roads>>

map_ports_relayout(r) ==
    /\ r # relayout_ports
    /\ relayout_ports' = r
    /\ UNCHANGED <<data, slider_ports, pc_ports, req_ports, out_ports, sec_roads>>

run_update_ports_section ==
    /\ pc_ports = "Recomputing"
    /\ LET res == update_ports_section(req_ports.buffer_distance, req_ports.relayout_data)
       IN out_ports' = IF res.status = "returned" THEN res ELSE out_ports
    /\ pc_ports' = "Idle"
    /\ req_ports' = NoRequest
    /\ UNCHANGED <<data, slider_ports, relayout_ports, sec_roads>>

Next ==
    \/ \E v \in ReactiveRoadsValues : slider_roads_changed(v)
    \/ \E r \in RelayoutEvents : map_roads_relayout(r)
    \/ run_update_roads_section
    \/ \E v \in ReactivePortsValues : slider_ports_changed(v)
    \/ \E r \in RelayoutEvents : map_ports_relayout(r)
    \/ run_update_ports_section

Spec == Init /\ [][Next]_vars

\* the callback of a section ends in this step: under Next these are the
\* steps of run_update_roads_section and of run_update_ports_section, which
\* are enabled exactly when the section is Recomputing
RoadsCompletes == pc_roads = "Recomputing" /\ pc_roads' = "Idle"

PortsCompletes == pc_ports = "Recomputing" /\ pc_ports' = "Idle"

\* a dispatched callback runs to completion (it returns or raises)
FairSpec ==
    /\ Spec
    /\ WF_pc_roads(RoadsCompletes)
    /\ WF_pc_ports(PortsCompletes)

----------------------------------------------------------------------------
(* The queries as functions of the datasets and the distance: the datasets *)
(* are drawn from the two families and each callback is applied to a       *)
(* slider value, with the map untouched (relayoutData None).               *)

QueryInit ==
    /\ \/ \E roads \in RoadLists :
          \E naselja \in SeqsUpTo(RoadsFamilySettlements, MaxSettlements) :
             Loaded(roads, Named(naselja), <<>>)
       \/ \E naselja \in SeqsUpTo(PortsFamilySettlements, MaxSettlements) :
          \E m_luke \in SeqsUpTo(PortRows, MaxPorts) :
             Loaded(<<Road(0, 100, 1)>>, Named(naselja), m_luke)
    /\ slider_roads = RoadsSliderValue
    /\ slider_ports = PortsSliderValue
    /\ relayout_roads = NoneRelayout
    /\ relayout_ports = NoneRelayout
    /\ pc_roads = "Idle"
    /\ pc_ports = "Idle"
    /\ req_roads = NoRequest
    /\ req_ports = NoRequest
    /\ out_roads = NoOutput
    /\ out_ports = NoOutput

\* slider-roads is set to v and update_roads_section(v, relayoutData) returns
query_roads(v) ==
    /\ slider_roads' = v
    /\ out_roads' = update_roads_section(v, relayout_roads)
    /\ UNCHANGED <<data, relayout_roads, pc_roads, req_roads, sec_ports>>

query_ports(v) ==
    /\ slider_ports' = v
    /\ out_ports' = update_ports_section(v, relayout_ports)
    /\ UNCHANGED <<data, relayout_ports, pc_ports, req_ports, sec_roads>>

QueryNext ==
    \/ \E v \in SliderRoadsValues : query_roads(v)
    \/ \E v \in SliderPortsValues : query_ports(v)

QuerySpec == QueryInit /\ [][QueryNext]_vars

----------------------------------------------------------------------------
(* What the outputs report *)

Returned(out) == out.status = "returned"

\* y of the population and of the settlement-count bar traces (section 1)
RoadsPopBars(out) == out.chart.data[1].y

RoadsCountBars(out) == out.chart.data[2].y

\* y of the port-count bar trace (section 2)
PortsCountBars(out) == out.chart.data[1].y

LayerNames(out) == [i \in 1..Len(out.map.data) |-> out.map.data[i].name]

\* distance of a point from a road segment along the line
Dist(x, road) ==
    IF x < road.lo THEN road.lo - x ELSE IF x > road.hi THEN x - road.hi ELSE 0

----------------------------------------------------------------------------
(* Claims on the queries, under QuerySpec *)

\* C1: roads section conservation: inside-count + outside-count is the
\* number of settlements and inside-sum + outside-sum is the total population.
C1_RoadsConservation ==
    Returned(out_roads) =>
        /\ RoadsCountBars(out_roads)[1] + RoadsCountBars(out_roads)[2] = Len(naselja_gdf)
        /\ RoadsPopBars(out_roads)[1] + RoadsPopBars(out_roads)[2] = SumPop(naselja_gdf)

C1_Witness ==
    /\ Returned(out_roads)
    /\ RoadsCountBars(out_roads)[1] = 1
    /\ RoadsCountBars(out_roads)[2] = 1
    /\ RoadsPopBars(out_roads)[1] > 0
    /\ RoadsPopBars(out_roads)[2] > 0

\* C2: ports section conservation: the de-duplicated inside-count plus the
\* outside-count is the number of distinct port names.
C2_PortsConservation ==
    Returned(out_ports) =>
        PortsCountBars(out_ports)[1] + PortsCountBars(out_ports)[2]
            = Cardinality({m_luke_gdf[i].NAZIV : i \in 1..Len(m_luke_gdf)})

\* C5: monotonicity: when a section's slider goes from d1 to a larger d2,
\* the inside-count reported for d2 is at least the one reported for d1.
C5_Monotone ==
    [][ /\ (Returned(out_roads) /\ Returned(out_roads') /\ slider_roads < slider_roads')
            => RoadsCountBars(out_roads)[1] <= RoadsCountBars(out_roads')[1]
        /\ (Returned(out_ports) /\ Returned(out_ports') /\ slider_ports < slider_ports')
            => PortsCountBars(out_ports)[1] <= PortsCountBars(out_ports')[1] ]_vars

C5_Witness ==
    /\ Returned(out_roads)
    /\ Returned(out_ports)
    /\ slider_roads > RoadsSliderMin
    /\ slider_ports > PortsSliderMin
    /\ RoadsCountBars(out_roads)[1] >= 1
    /\ PortsCountBars(out_ports)[1] >= 1
    /\ PortsCountBars(out_ports)[1] < Len(m_luke_gdf)

\* the rows of m_luke_gdf inside the buffer of the large settlements by d
InsidePortRows(d) ==
    {i \in 1..Len(m_luke_gdf) :
        d > 0 /\ \E j \in 1..Len(naselja_gdf) :
                    /\ naselja_gdf[j].BR_ST_01 > 10000
                    /\ naselja_gdf[j].EASTING - d < m_luke_gdf[i].EASTING
                    /\ m_luke_gdf[i].EASTING < naselja_gdf[j].EASTING + d}

FirstInside(d, name) ==
    CHOOSE i \in InsidePortRows(d) :
        /\ m_luke_gdf[i].NAZIV = name
        /\ \A k \in InsidePortRows(d) : m_luke_gdf[k].NAZIV = name => i <= k

\* the 'Selected Ports' layer of the ports map
SelectedPortsLayer(out) == out.map.data[Len(out.map.data)]

\* C6: de-duplication: every name among the ports inside the region appears
\* exactly once in the selected-port output, as the first such entry of the
\* port dataset; nothing else appears.
C6_Dedup ==
    Returned(out_ports) =>
        LET sel == SelectedPortsLayer(out_ports)
            names == {m_luke_gdf[i].NAZIV : i \in InsidePortRows(slider_ports)}
        IN /\ \A n \in names :
                /\ Cardinality({k \in 1..Len(sel.text) : sel.text[k] = n}) = 1
                /\ \A k \in 1..Len(sel.text) :
                      sel.text[k] = n
                        => sel.lon[k] = to_crs_x(m_luke_gdf[FirstInside(slider_ports, n)].EASTING)
           /\ \A k \in 1..Len(sel.text) : sel.text[k] \in names

C6_Witness ==
    /\ Returned(out_ports)
    /\ \E i, k \in InsidePortRows(slider_ports) :
          /\ i < k
          /\ m_luke_gdf[i].NAZIV = m_luke_gdf[k].NAZIV
          /\ m_luke_gdf[i].EASTING # m_luke_gdf[k].EASTING
    /\ Len(SelectedPortsLayer(out_ports).text) = 1

\* one road segment in the road set and one settlement, off the road
OneRoadOneSettlement ==
    /\ Returned(out_roads)
    /\ Len(AID) = 1
    /\ Len(naselja_gdf) = 1
    /\ Dist(naselja_gdf[1].EASTING, AID[1]) > 0

\* C7 as claimed: inside-count 0 for d < D and 1 for d >= D, d = D included.
C7_ThresholdClosed ==
    OneRoadOneSettlement =>
        RoadsCountBars(out_roads)[1]
            = IF slider_roads >= Dist(naselja_gdf[1].EASTING, AID[1]) THEN 1 ELSE 0

\* C7 amended: inside-count 0 for d <= D (a settlement on the buffer boundary
\* is not within it) and 1 for d > D.
C7_ThresholdOpen ==
    OneRoadOneSettlement =>
        RoadsCountBars(out_roads)[1]
            = IF slider_roads > Dist(naselja_gdf[1].EASTING, AID[1]) THEN 1 ELSE 0

C7_Witness ==
    /\ OneRoadOneSettlement
    /\ slider_roads = Dist(naselja_gdf[1].EASTING, AID[1])
    /\ RoadsCountBars(out_roads)[1] = 0

----------------------------------------------------------------------------
(* Claims on the reactive runs, under Spec *)

\* the fixed error placeholder: empty map, empty chart, the load error as title
IsErrorPlaceholder(out) ==
    /\ Returned(out)
    /\ out.map.data = <<>>
    /\ out.chart.data = <<>>
    /\ out.title.text = ERROR_MESSAGE

\* C3: after a failed load the flag and the message never change, and every
\* invocation of either callback returns the fixed error placeholder.
C3_LoadFailure ==
    [][ ~DATA_LOADED_SUCCESSFULLY =>
          /\ DATA_LOADED_SUCCESSFULLY' = DATA_LOADED_SUCCESSFULLY
          /\ ERROR_MESSAGE' = ERROR_MESSAGE
          /\ RoadsCompletes => IsErrorPlaceholder(out_roads')
          /\ PortsCompletes => IsErrorPlaceholder(out_ports')
          /\ out_roads' # out_roads => RoadsCompletes
          /\ out_ports' # out_ports => PortsCompletes ]_vars

C3_Witness ==
    /\ ~DATA_LOADED_SUCCESSFULLY
    /\ pc_roads = "Idle"
    /\ pc_ports = "Idle"
    /\ IsErrorPlaceholder(out_roads)
    /\ IsErrorPlaceholder(out_ports)
    /\ slider_roads # RoadsSliderValue
    /\ slider_ports # PortsSliderValue
    /\ "mapbox.zoom" \in relayout_roads.keys
    /\ "mapbox.center" \in relayout_ports.keys

\* the relayout record carries a center and/or a zoom
SuppliesViewport(r) == ~r.isNone /\ r.keys \cap {"mapbox.center", "mapbox.zoom"} # {}

\* the map echoes what the record supplies; without a record it has the default
EchoesViewport(r, out) ==
    IF SuppliesViewport(r)
    THEN /\ Returned(out)
         /\ "mapbox.center" \in r.keys => out.map.layout.mapbox_center = r.center
         /\ "mapbox.zoom" \in r.keys => out.map.layout.mapbox_zoom = r.zoom
    ELSE /\ Returned(out)
         /\ out.map.layout.mapbox_center = [lat |-> map_center_lat, lon |-> map_center_lon]
         /\ out.map.layout.mapbox_zoom = 6

\* C4: viewport preservation: a callback invoked with a relayout record that
\* carries a center and/or a zoom returns a map with exactly that center and
\* zoom; the default is used only when no viewport state is supplied.
C4_ViewportPreserved ==
    [][ DATA_LOADED_SUCCESSFULLY =>
          /\ RoadsCompletes => EchoesViewport(req_roads.relayout_data, out_roads')
          /\ PortsCompletes => EchoesViewport(req_ports.relayout_data, out_ports') ]_vars

\* C8: section independence: a step of one section (its slider, its map's
\* viewport, its callback, its outputs) leaves the other section's slider,
\* viewport and outputs and the datasets unchanged, and the outputs a
\* callback writes are a function of its own section's request alone.
C8_Independence ==
    [][ /\ sec_roads' # sec_roads => UNCHANGED <<sec_ports, data>>
        /\ sec_ports' # sec_ports => UNCHANGED <<sec_roads, data>>
        /\ out_roads' # out_roads =>
              out_roads' = update_roads_section(req_roads.buffer_distance,
                                                req_roads.relayout_data)
        /\ out_ports' # out_ports =>
              out_ports' = update_ports_section(req_ports.buffer_distance,
                                                req_ports.relayout_data)
        /\ out_roads' # out_roads /\ DATA_LOADED_SUCCESSFULLY =>
              out_roads'.title.distance = slider_roads
        /\ out_ports' # out_ports /\ DATA_LOADED_SUCCESSFULLY =>
              out_ports'.title.km_tenths = slider_ports \div 100 ]_vars

C8_Witness ==
    /\ DATA_LOADED_SUCCESSFULLY
    /\ pc_roads = "Idle"
    /\ Returned(out_roads)
    /\ out_roads.title.distance # RoadsSliderValue
    /\ "mapbox.zoom" \in relayout_roads.keys
    /\ Returned(out_ports)
    /\ out_ports.title.km_tenths = PortsSliderValue \div 100
    /\ slider_ports = PortsSliderValue
    /\ relayout_ports = NoneRelayout

\* C9 as claimed: buffer region, base points, context points, selected points;
\* in the ports section the all-ports layer precedes the large settlements.
C9_LayerOrderClaimed ==
    DATA_LOADED_SUCCESSFULLY =>
        /\ Returned(out_roads) =>
              LayerNames(out_roads)
                = <<"Buffer Zone", "All Settlements", "Selected Settlements">>
        /\ Returned(out_ports) =>
              LayerNames(out_ports)
                = <<"Buffer Zone", "All Ports", "Large Settlements (>10k)", "Selected Ports">>

\* C9 amended: roads section: buffer region, all settlements (no hover text),
\* selected settlements (names on hover); ports section: buffer region, large
\* settlements, all ports (no hover text), selected ports (names on hover).
C9_LayerOrder ==
    DATA_LOADED_SUCCESSFULLY =>
        /\ Returned(out_roads) =>
              /\ LayerNames(out_roads)
                   = <<"Buffer Zone", "All Settlements", "Selected Settlements">>
              /\ out_roads.map.data[1].type = "choroplethmapbox"
              /\ out_roads.map.data[2].hoverinfo = "none"
              /\ out_roads.map.data[3].hoverinfo = "text"
        /\ Returned(out_ports) =>
              /\ LayerNames(out_ports)
                   = <<"Buffer Zone", "Large Settlements (>10k)", "All Ports", "Selected Ports">>
              /\ out_ports.map.data[1].type = "choroplethmapbox"
              /\ out_ports.map.data[3].hoverinfo = "none"
              /\ out_ports.map.data[4].hoverinfo = "text"

C9_Witness ==
    /\ DATA_LOADED_SUCCESSFULLY
    /\ Returned(out_roads)
    /\ Returned(out_ports)
    /\ Len(out_ports.map.data[4].text) >= 1
    /\ Len(out_ports.map.data[2].text) >= 1

Displayed(old, res) == IF res.status = "returned" THEN res ELSE old

\* the steps of the sections' state machines
C10_Steps ==
    [][ /\ (pc_roads = "Idle" /\ pc_roads' = "Recomputing") =>
              /\ slider_roads' # slider_roads
              /\ req_roads' = Request(slider_roads', relayout_roads)
        /\ relayout_roads' # relayout_roads => UNCHANGED <<pc_roads, req_roads, out_roads>>
        /\ slider_roads' # slider_roads => (pc_roads = "Idle" /\ pc_roads' = "Recomputing")
        /\ pc_roads = "Recomputing" =>
              \/ UNCHANGED <<pc_roads, req_roads, out_roads, slider_roads>>
              \/ /\ pc_roads' = "Idle"
                 /\ slider_roads' = slider_roads
                 /\ req_roads.buffer_distance = slider_roads
                 /\ out_roads' = Displayed(out_roads,
                        update_roads_section(slider_roads, req_roads.relayout_data))
        /\ (pc_roads = "Idle" /\ pc_roads' = "Idle") => out_roads' = out_roads
        /\ (pc_ports = "Idle" /\ pc_ports' = "Recomputing") =>
              /\ slider_ports' # slider_ports
              /\ req_ports' = Request(slider_ports', relayout_ports)
        /\ relayout_ports' # relayout_ports => UNCHANGED <<pc_ports, req_ports, out_ports>>
        /\ slider_ports' # slider_ports => (pc_ports = "Idle" /\ pc_ports' = "Recomputing")
        /\ pc_ports = "Recomputing" =>
              \/ UNCHANGED <<pc_ports, req_ports, out_ports, slider_ports>>
              \/ /\ pc_ports' = "Idle"
                 /\ slider_ports' = slider_ports
                 /\ req_ports.buffer_distance = slider_ports
                 /\ out_ports' = Displayed(out_ports,
                        update_ports_section(slider_ports, req_ports.relayout_data))
        /\ (pc_ports = "Idle" /\ pc_ports' = "Idle") => out_ports' = out_ports ]_vars

====
